---- MODULE Spec2Model ----
(***************************************************************************)
(* Model of .github/scripts/update_app_info.py: the version resolver       *)
(* (get_latest_version_folder), the version gate and record writer         *)
(* (save_app_info) and the per-app pipeline (process_app, main).           *)
(*                                                                         *)
(* Python values are tagged records: None is [t |-> "none"], a str is      *)
(* [t |-> "str", s |-> <<characters>>], an int is [t |-> "num", n |-> i],  *)
(* any other scalar is [t |-> "val", v |-> x].  A dict is a function whose *)
(* domain is the set of keys that are present.                             *)
(***************************************************************************)
EXTENDS Integers, Sequences, FiniteSets, TLC

\* ------------------------------------------------------------------ bounds
MaxLen == 3         \* longest generated version string
MaxFolders == 4     \* longest directory listing
MaxTime == 2        \* largest commit timestamp (0 is datetime.min)

\* ------------------------------------------------------- program constants
TopN == 3           \* version_folders[:3]
MinParts == 3       \* while len(version_parts) < 3

\* ---------------------------------------------------------- Python values
None_ == [t |-> "none"]
\* marks a key that the enclosing dict does not have
Absent == [t |-> "absent"]
Str(s) == [t |-> "str", s |-> s]
Num(n) == [t |-> "num", n |-> n]
Val(v) == [t |-> "val", v |-> v]

\* dict.get(k) and dict.get(k, default)
Get(d, k) == IF k \in DOMAIN d THEN d[k] ELSE None_
GetDefault(d, k, default) == IF k \in DOMAIN d THEN d[k] ELSE default

\* Python truthiness of a value used in `if x and y`
Truthy(x) ==
  CASE x.t = "none" -> FALSE
    [] x.t = "str"  -> Len(x.s) > 0
    [] x.t = "num"  -> x.n /= 0
    [] OTHER        -> TRUE

\* ------------------------------------------------------------- characters
Digits == {"0", "1", "2", "3", "4", "5", "6", "7", "8", "9"}
IsDigit(c) == c \in Digits
DigitVal(c) ==
  CASE c = "0" -> 0 [] c = "1" -> 1 [] c = "2" -> 2 [] c = "3" -> 3
    [] c = "4" -> 4 [] c = "5" -> 5 [] c = "6" -> 6 [] c = "7" -> 7
    [] c = "8" -> 8 [] c = "9" -> 9

\* int(part) for a string of decimal digits
RECURSIVE IntOf(_)
IntOf(ds) ==
  IF ds = <<>> THEN 0
  ELSE 10 * IntOf(SubSeq(ds, 1, Len(ds) - 1)) + DigitVal(ds[Len(ds)])

\* end (inclusive) of the maximal run of digits of s that starts at i
RECURSIVE RunEnd(_, _)
RunEnd(s, i) ==
  IF i < Len(s) /\ IsDigit(s[i + 1]) THEN RunEnd(s, i + 1) ELSE i

\* re.findall(r'\d+', s) from position i on: the maximal digit runs, in order
RECURSIVE FindAllDigits(_, _)
FindAllDigits(s, i) ==
  IF i > Len(s) THEN <<>>
  ELSE IF IsDigit(s[i])
       THEN <<SubSeq(s, i, RunEnd(s, i))>> \o FindAllDigits(s, RunEnd(s, i) + 1)
       ELSE FindAllDigits(s, i + 1)

\* while len(version_parts) < 3: version_parts.append('0')
RECURSIVE PadParts(_)
PadParts(parts) ==
  IF Len(parts) < MinParts THEN PadParts(Append(parts, <<"0">>)) ELSE parts

\* normalize_version(version_str) for a str argument
normalize_version(s) ==
  LET padded == PadParts(FindAllDigits(s, 1))
  IN  [i \in 1..Len(padded) |-> IntOf(padded[i])]

Max(a, b) == IF a >= b THEN a ELSE b

\* the comparison loop: is_newer after the for loop over
\* range(max(len(existing_parts), len(new_parts))), scanned from index i
RECURSIVE CompareFrom(_, _, _)
CompareFrom(existing_parts, new_parts, i) ==
  IF i > Max(Len(existing_parts), Len(new_parts)) THEN FALSE
  ELSE LET existing_part == IF i <= Len(existing_parts) THEN existing_parts[i] ELSE 0
           new_part == IF i <= Len(new_parts) THEN new_parts[i] ELSE 0
       IN  IF new_part > existing_part THEN TRUE
           ELSE IF new_part < existing_part THEN FALSE
           ELSE CompareFrom(existing_parts, new_parts, i + 1)

is_newer(existing_parts, new_parts) == CompareFrom(existing_parts, new_parts, 1)

\* ------------------------------------------------------ string operations
\* code point of the characters that occur in the model's strings
Ord(c) ==
  CASE c = " " -> 32 [] c = "-" -> 45 [] c = "." -> 46 [] c = "_" -> 95
    [] c = "B" -> 66 [] c = "F" -> 70
    [] c = "a" -> 97 [] c = "b" -> 98 [] c = "c" -> 99 [] c = "d" -> 100
    [] c = "f" -> 102 [] c = "o" -> 111 [] c = "r" -> 114
    [] OTHER -> 48 + DigitVal(c)

\* Python's ordering of two str values: by code point, a proper prefix first
RECURSIVE StrLess(_, _)
StrLess(a, b) ==
  IF b = <<>> THEN FALSE
  ELSE IF a = <<>> THEN TRUE
  ELSE IF Ord(a[1]) /= Ord(b[1]) THEN Ord(a[1]) < Ord(b[1])
  ELSE StrLess(Tail(a), Tail(b))

\* c.lower() and the replace(' ', '_') of one character
LowerChar(c) == CASE c = "B" -> "b" [] c = "F" -> "f" [] OTHER -> c
CleanChar(c) == IF LowerChar(c) = " " THEN "_" ELSE LowerChar(c)

\* filename = f"{app_name.lower().replace(' ', '_')}_{architecture.lower()}.json"
\* (architecture tokens are atoms; "X64" is the only one with an upper-case letter)
LowerArch(a) == IF a = "X64" THEN "x64" ELSE a
file_path(app_name, architecture) ==
  <<[i \in 1..Len(app_name) |-> CleanChar(app_name[i])], LowerArch(architecture)>>

\* ---------------------------------------------------------- the version gate
\* existing_version >= new_version raises TypeError unless both are of one kind
Comparable(a, b) == a.t = b.t /\ a.t \in {"str", "num"}
GreaterEq(a, b) ==
  IF a.t = "num" THEN a.n >= b.n ELSE ~StrLess(a.s, b.s)

\* Lines 330-367: what the comparison of the stored and the new PackageVersion
\* decides.  "skipped": one of them is falsy, no comparison is made;
\* "accept"/"reject": the comparison completed; "error": the fallback
\* comparison raised, which the outer handler (line 368) catches.
GateDecision(existing_version, new_version) ==
  IF ~(Truthy(existing_version) /\ Truthy(new_version)) THEN "skipped"
  ELSE IF existing_version.t = "str" /\ new_version.t = "str"
       THEN IF is_newer(normalize_version(existing_version.s),
                        normalize_version(new_version.s))
            THEN "accept" ELSE "reject"
       \* re.findall raised TypeError on a non-str: the fallback comparison
       ELSE IF ~Comparable(existing_version, new_version) THEN "error"
       ELSE IF GreaterEq(existing_version, new_version) THEN "reject"
       ELSE "accept"

\* ------------------------------------------------------------ record files
\* A record file is absent, unreadable (json.load raises), or holds the dict
\* that json.dump wrote: str, int, list and dict values read back as written.
NoFile == [k |-> "nofile"]
Corrupt == [k |-> "corrupt"]
Rec(d) == [k |-> "rec", data |-> d]

EmptyList == [t |-> "list", items |-> <<>>]
EmptyMap == [t |-> "map"]

FieldNames ==
  {"PackageIdentifier", "PackageVersion", "InstallerType", "Scope", "InstallModes",
   "InstallerSwitches", "InstallerUrl", "InstallerSha256", "Architecture"}

\* the first installer whose Architecture equals `architecture` (lines 291-295);
\* None_ when there is none
RECURSIVE FindInstaller(_, _)
FindInstaller(installers, architecture) ==
  IF installers = <<>> THEN None_
  ELSE IF Get(Head(installers), "Architecture") = architecture
       THEN [t |-> "dict", d |-> Head(installers)]
       ELSE FindInstaller(Tail(installers), architecture)

\* `not installer`: None or an empty dict
NotInstaller(installer) == installer.t = "none" \/ DOMAIN installer.d = {}

\* lines 302-312: the record before None values are removed
RawJsonData(installer_data, installer, architecture) ==
  [k \in FieldNames |->
     CASE k = "InstallModes" -> GetDefault(installer_data, k, EmptyList)
       [] k = "InstallerSwitches" -> GetDefault(installer_data, k, EmptyMap)
       [] k \in {"InstallerUrl", "InstallerSha256"} -> Get(installer.d, k)
       [] k = "Architecture" -> architecture
       [] OTHER -> Get(installer_data, k)]

\* RemoveNone without the filter
RemoveNone_KeepNone(json_data) == json_data

\* line 315: {k: v for k, v in json_data.items() if v is not None}
RemoveNone(json_data) ==
  [k \in {f \in DOMAIN json_data : json_data[f] /= None_} |-> json_data[k]]

\* lines 323-369: the outcome of the existence check, the read and the gate
GateOutcome(file, json_data) ==
  IF file.k = "nofile" THEN "nofile"
  ELSE IF file.k = "corrupt" THEN "readerror"
  ELSE GateDecision(Get(file.data, "PackageVersion"), Get(json_data, "PackageVersion"))

\* the outcomes after which control reaches the write at line 372
WriteProceeds(gate) == gate \in {"nofile", "readerror", "skipped", "error", "accept"}

\* lines 372-379: "ok": written; "open_fails": open() raised, the file is as it
\* was; "dump_fails": open() truncated the file and json.dump raised
WriteOutcomes == {"ok", "open_fails", "dump_fails"}
WriteFile(file, json_data, wr) ==
  CASE wr = "ok" -> Rec(json_data)
    [] wr = "open_fails" -> file
    [] wr = "dump_fails" -> Corrupt

\* save_app_info(app_id, app_name, installer_data, architecture) on the record
\* file `file`, with `wr` the outcome of the write if one is attempted.
\* ret: the return value; raised: an exception left the function;
\* opened: open(file_path, 'w') was called; gate: the gate's outcome.
save_app_info(file, installer_data, architecture, wr) ==
  LET installer == FindInstaller(GetDefault(installer_data, "Installers", EmptyList).items,
                                 architecture)
      json_data == RemoveNone(RawJsonData(installer_data, installer, architecture))
      gate == GateOutcome(file, json_data)
  IN  IF NotInstaller(installer)
      THEN [ret |-> FALSE, raised |-> FALSE, opened |-> FALSE, gate |-> "none", file |-> file]
      ELSE IF architecture.t /= "val"   \* architecture.lower() on None
      THEN [ret |-> FALSE, raised |-> TRUE, opened |-> FALSE, gate |-> "none", file |-> file]
      ELSE IF ~WriteProceeds(gate)
      THEN [ret |-> FALSE, raised |-> FALSE, opened |-> FALSE, gate |-> gate, file |-> file]
      ELSE [ret |-> wr = "ok", raised |-> FALSE, opened |-> TRUE, gate |-> gate,
            file |-> WriteFile(file, json_data, wr)]

\* ------------------------------------------------------------ the resolver
\* is_version_folder(folder_name): re.match(r'^\d', folder_name)
is_version_folder(name) == Len(name) > 0 /\ IsDigit(name[1])

\* [f for f in folders if is_version_folder(f['name'])]
RECURSIVE FilterVersionFolders(_)
FilterVersionFolders(folders) ==
  IF folders = <<>> THEN <<>>
  ELSE IF is_version_folder(Head(folders))
       THEN <<Head(folders)>> \o FilterVersionFolders(Tail(folders))
       ELSE FilterVersionFolders(Tail(folders))

\* position of the first digit of s at or after i; 0 when there is none
RECURSIVE FirstDigit(_, _)
FirstDigit(s, i) ==
  IF i > Len(s) THEN 0 ELSE IF IsDigit(s[i]) THEN i ELSE FirstDigit(s, i + 1)

\* the components of the match of (\d+(?:\.\d+)*) that starts at digit i:
\* a digit run, then as many ".digits" groups as follow directly
RECURSIVE MatchParts(_, _)
MatchParts(s, i) ==
  LET e == RunEnd(s, i)
  IN  IF e + 2 <= Len(s) /\ s[e + 1] = "." /\ IsDigit(s[e + 2])
      THEN <<IntOf(SubSeq(s, i, e))>> \o MatchParts(s, e + 2)
      ELSE <<IntOf(SubSeq(s, i, e))>>

\* folder['version_parts'] (lines 184-190)
version_parts(name) ==
  IF FirstDigit(name, 1) = 0 THEN <<0>> ELSE MatchParts(name, FirstDigit(name, 1))

\* the decimal digits of n, and ListLess comparing the components as text
RECURSIVE DecimalText(_)
DecimalText(n) ==
  IF n < 10 THEN <<n>> ELSE DecimalText(n \div 10) \o <<n % 10>>
RECURSIVE ListLess_AsText(_, _)
ListLess_AsText(a, b) ==
  IF b = <<>> THEN FALSE
  ELSE IF a = <<>> THEN TRUE
  ELSE IF a[1] /= b[1]
       THEN LET ta == DecimalText(a[1])
                tb == DecimalText(b[1])
                RECURSIVE TextLess(_, _)
                TextLess(x, y) ==
                  IF y = <<>> THEN FALSE
                  ELSE IF x = <<>> THEN TRUE
                  ELSE IF x[1] /= y[1] THEN x[1] < y[1]
                  ELSE TextLess(Tail(x), Tail(y))
            IN  TextLess(ta, tb)
  ELSE ListLess_AsText(Tail(a), Tail(b))

\* Python's a < b on two lists of int: decided at the first index where they
\* differ; a proper prefix is smaller
RECURSIVE ListLess(_, _)
ListLess(a, b) ==
  IF b = <<>> THEN FALSE
  ELSE IF a = <<>> THEN TRUE
  ELSE IF a[1] /= b[1] THEN a[1] < b[1]
  ELSE ListLess(Tail(a), Tail(b))

\* where x goes in a list sorted highest first so that equal keys keep their
\* order (list.sort is stable, also with reverse=True): before the first
\* element whose key is smaller
RECURSIVE InsertByVersion(_, _)
InsertByVersion(sorted, x) ==
  IF sorted = <<>> THEN <<x>>
  ELSE IF ListLess(version_parts(Head(sorted)), version_parts(x))
       THEN <<x>> \o sorted
       ELSE <<Head(sorted)>> \o InsertByVersion(Tail(sorted), x)

\* version_folders.sort(key=version_parts, reverse=True) (line 193)
RECURSIVE SortByVersion(_)
SortByVersion(folders) ==
  IF folders = <<>> THEN <<>>
  ELSE InsertByVersion(SortByVersion(SubSeq(folders, 1, Len(folders) - 1)),
                       folders[Len(folders)])

\* TopFolders without the slice
TopFolders_NoLimit(sorted) == sorted

\* version_folders[:3] (line 197)
TopFolders(sorted) == SubSeq(sorted, 1, IF Len(sorted) < TopN THEN Len(sorted) ELSE TopN)

\* x.get('commit_date', datetime.min): datetime.min is 0
DateOf(dates, name) == IF name \in DOMAIN dates THEN dates[name] ELSE 0

RECURSIVE InsertByDate(_, _, _)
InsertByDate(sorted, x, dates) ==
  IF sorted = <<>> THEN <<x>>
  ELSE IF DateOf(dates, Head(sorted)) < DateOf(dates, x)
       THEN <<x>> \o sorted
       ELSE <<Head(sorted)>> \o InsertByDate(Tail(sorted), x, dates)

\* top_folders.sort(key=commit_date, reverse=True) (line 223)
RECURSIVE SortByDate(_, _)
SortByDate(folders, dates) ==
  IF folders = <<>> THEN <<>>
  ELSE InsertByDate(SortByDate(SubSeq(folders, 1, Len(folders) - 1), dates),
                    folders[Len(folders)], dates)

\* lines 225-230: the first of the list sorted by date, or None
NoFolder == <<"None">>
\* LatestOf without the sort by commit date
LatestOf_HighestVersion(top_folders, dates) ==
  IF top_folders = <<>> THEN NoFolder ELSE top_folders[1]
LatestOf(top_folders, dates) ==
  IF top_folders = <<>> THEN NoFolder ELSE SortByDate(top_folders, dates)[1]

\* the candidates of a listing: lines 170-197
Candidates(folders) == TopFolders(SortByVersion(FilterVersionFolders(folders)))

\* get_latest_version_folder(app_id, folders) when the lookups give `dates`
get_latest_version_folder(folders, dates) == LatestOf(Candidates(folders), dates)

\* ================================================================== state
VARIABLES
  \* one call of save_app_info
  sFile, sData, sArch, sRes, sPc,
  \* one call of get_latest_version_folder
  rFolders, rSorted, rTop, rDates, rCalls, rResult, rPc,
  \* main: the position in the run, the loop index, the record files, what the
  \* remote collaborators returned for each app in this or the previous run,
  \* whether this run sees the same upstream as the previous one, and the
  \* record files the last process_app call opened for writing
  pc, idx, store, last, mode, opened

saveVars == <<sFile, sData, sArch, sRes, sPc>>
resolverVars == <<rFolders, rSorted, rTop, rDates, rCalls, rResult, rPc>>
mainVars == <<pc, idx, store, last, mode, opened>>
vars == <<saveVars, resolverVars, mainVars>>

SaveIdle ==
  /\ sFile = NoFile /\ sData = <<>> /\ sArch = None_ /\ sPc = "idle"
  /\ sRes = [ret |-> FALSE, raised |-> FALSE, opened |-> FALSE, gate |-> "idle", file |-> NoFile]
ResolverIdle ==
  /\ rFolders = <<>> /\ rSorted = <<>> /\ rTop = <<>> /\ rDates = <<>>
  /\ rCalls = 0 /\ rResult = NoFolder /\ rPc = "idle"
MainIdle ==
  /\ pc = "idle" /\ idx = 0 /\ store = <<>> /\ last = <<>> /\ mode = "idle" /\ opened = {}

\* ------------------------------------------------- inputs of save_app_info
GateAlphabet == {"0", "1", ".", "a"}
StringsUpTo(n) == UNION {[1..k -> GateAlphabet] : k \in 0..n}

ExampleVersions ==
  { <<"1", ".", "0", ".", "0">>, <<"1", ".", "2">>, <<"1", ".", "2", ".", "0">>,
    <<"1", ".", "1", "0", ".", "0">>, <<"2", ".", "0">>, <<"1", ".", "9", ".", "9">>,
    <<"a", "b", "c">>, <<"a", "b", "d">>, <<"1", ".", "0", ".", "0", ".", "1">>,
    <<"1", ".", "0", ".", "0", ".", "0">> }

VersionStrings == StringsUpTo(MaxLen) \cup ExampleVersions

\* what yaml.safe_load can give for PackageVersion: a str, or an int for an
\* unquoted integer scalar
VersionNumbers == {0, 1, 2}
VersionValues == {Str(s) : s \in VersionStrings} \cup {Num(n) : n \in VersionNumbers}

X64 == Val("x64")

\* a descriptor with one x64 installer and every other field present;
\* pv = Absent stands for a descriptor with no PackageVersion
DescWith(pv) ==
  [k \in {"PackageIdentifier", "InstallerType", "Scope", "InstallModes",
          "InstallerSwitches", "Installers"}
         \cup (IF pv = Absent THEN {} ELSE {"PackageVersion"}) |->
     CASE k = "PackageVersion" -> pv
       [] k = "InstallModes" -> [t |-> "list", items |-> <<Val("silent")>>]
       [] k = "InstallerSwitches" -> EmptyMap
       [] k = "Installers" ->
            [t |-> "list",
             items |-> << [f \in {"Architecture", "InstallerUrl", "InstallerSha256"} |->
                            IF f = "Architecture" THEN X64 ELSE Val(f)] >>]
       [] OTHER -> Val(k)]

\* the record file an earlier run leaves after saving a descriptor of version pv
RecordOf(pv) == save_app_info(NoFile, DescWith(pv), X64, "ok").file

Pending(file) ==
  [ret |-> FALSE, raised |-> FALSE, opened |-> FALSE, gate |-> "pending", file |-> file]

\* SpecGate: every stored version against every new version
InitGate ==
  /\ sFile \in {NoFile, Corrupt} \cup {RecordOf(pv) : pv \in VersionValues \cup {Absent}}
  /\ sData \in {DescWith(pv) : pv \in VersionValues \cup {Absent, None_}}
  /\ sArch = X64
  /\ sRes = Pending(sFile)
  /\ sPc = "call"
  /\ ResolverIdle /\ MainIdle

\* the call: the whole of save_app_info, the write included
SaveCall ==
  /\ sPc = "call"
  /\ \E wr \in WriteOutcomes : sRes' = save_app_info(sFile, sData, sArch, wr)
  /\ sPc' = "done"
  /\ UNCHANGED <<sFile, sData, sArch, resolverVars, mainVars>>

NextSave == SaveCall
SpecGate == InitGate /\ [][NextSave]_vars

\* SpecSave: every combination of absent, null and present fields
OptionalKeys == {"PackageIdentifier", "InstallerType", "Scope", "InstallModes",
                 "InstallerSwitches"}
InstallerKeys == {"InstallerUrl", "InstallerSha256"}
Presence == {"absent", "null", "value"}

V100 == Str(<<"1", ".", "0", ".", "0">>)
V200 == Str(<<"2", ".", "0", ".", "0">>)

FieldValue(k) ==
  CASE k = "InstallModes" -> [t |-> "list", items |-> <<Val("silent")>>]
    [] k = "InstallerSwitches" -> [t |-> "map", Silent |-> Val("/S")]
    [] OTHER -> Val(k)

\* an installer entry: its Architecture (Absent = the key is missing) and which of
\* its other keys are absent, null or present
InstallerEntry(arch, has) ==
  [f \in {k \in InstallerKeys : has[k] /= "absent"}
         \cup (IF arch = Absent THEN {} ELSE {"Architecture"}) |->
     IF f = "Architecture" THEN arch
     ELSE IF has[f] = "null" THEN None_ ELSE Val(f)]

\* a fetched descriptor: has[k] for the optional keys, pv the PackageVersion
\* (Absent, or the value, None_ being an explicit null), two installers
Descriptor(has, pv, inst) ==
  [k \in {o \in OptionalKeys : has[o] /= "absent"}
         \cup (IF pv = Absent THEN {} ELSE {"PackageVersion"}) \cup {"Installers"} |->
     CASE k = "PackageVersion" -> pv
       [] k = "Installers" ->
            [t |-> "list",
             items |-> <<InstallerEntry(Val("x86"), [f \in InstallerKeys |-> "value"]), inst>>]
       [] OTHER -> IF has[k] = "null" THEN None_ ELSE FieldValue(k)]

\* set(inst.get('Architecture') for inst in installer_data.get('Installers', []))
Architectures(installer_data) ==
  LET items == GetDefault(installer_data, "Installers", EmptyList).items
  IN  {Get(items[i], "Architecture") : i \in 1..Len(items)}

InitSave ==
  /\ sFile \in {NoFile, RecordOf(V100)}
  /\ \E has \in [OptionalKeys -> Presence], ihas \in [InstallerKeys -> Presence],
        pv \in {Absent, None_, V100, V200}, arch \in {X64, Absent} :
        sData = Descriptor(has, pv, InstallerEntry(arch, ihas))
  /\ sArch \in Architectures(sData)
  /\ sRes = Pending(sFile)
  /\ sPc = "call"
  /\ ResolverIdle /\ MainIdle

SpecSave == InitSave /\ [][NextSave]_vars

\* ------------------------------------------------------- claims on the gate
NoDigit(s) == \A i \in 1..Len(s) : ~IsDigit(s[i])
StoredVersion == IF sFile.k = "rec" THEN Get(sFile.data, "PackageVersion") ELSE None_
NewVersion == Get(sData, "PackageVersion")

\* the comparison as the specification words it: the digit runs as integers,
\* zero-padded to at least 3 components and to a common length, the new one
\* strictly greater at the first index where they differ
DigitRuns(s) ==
  LET runs == FindAllDigits(s, 1) IN [i \in 1..Len(runs) |-> IntOf(runs[i])]
PadTo(seq, n) == [i \in 1..n |-> IF i <= Len(seq) THEN seq[i] ELSE 0]
PaddedNewer(e, n) ==
  LET len == Max(MinParts, Max(Len(e), Len(n)))
      pe == PadTo(e, len)
      pn == PadTo(n, len)
  IN  \E i \in 1..len : pn[i] > pe[i] /\ \A j \in 1..(i - 1) : pn[j] = pe[j]

\* C2: the gate accepts when no version is stored, and otherwise accepts if and
\* only if the new version's padded digit-run sequence is strictly greater than
\* the stored one's at the first index where they differ (stated for every new
\* version that is a string, the empty string included).
C2_GateAcceptsIffStrictlyNewer ==
  (sPc = "done" /\ sFile.k /= "corrupt" /\ NewVersion.t = "str"
     /\ StoredVersion.t \in {"none", "str"})
  => IF ~Truthy(StoredVersion) THEN sRes.opened
     ELSE sRes.opened <=> PaddedNewer(DigitRuns(StoredVersion.s), DigitRuns(NewVersion.s))

\* The same statement for two non-empty version strings: there the code's gate
\* is exactly the padded comparison.
GateOnNonEmptyStrings ==
  (sPc = "done" /\ sFile.k = "rec" /\ NewVersion.t = "str" /\ StoredVersion.t = "str"
     /\ Truthy(StoredVersion) /\ Truthy(NewVersion))
  => (sRes.opened <=> PaddedNewer(DigitRuns(StoredVersion.s), DigitRuns(NewVersion.s)))

\* C4: with a stored version and two non-empty version strings that contain no
\* digit, the gate accepts if and only if the new string is lexicographically
\* strictly greater than the stored one ("abc" then "abd" is accepted).
C4_FallbackIsLexicographic ==
  (sPc = "done" /\ sFile.k = "rec" /\ StoredVersion.t = "str" /\ NewVersion.t = "str"
     /\ Truthy(StoredVersion) /\ Truthy(NewVersion)
     /\ NoDigit(StoredVersion.s) /\ NoDigit(NewVersion.s))
  => (sRes.opened <=> StrLess(StoredVersion.s, NewVersion.s))

\* ------------------------------------------------- claims on written records
Written == sPc = "done" /\ sRes.ret

\* the value the code has for field k before None values are removed
Available(k) ==
  CASE k = "InstallModes" -> GetDefault(sData, k, EmptyList)
    [] k = "InstallerSwitches" -> GetDefault(sData, k, EmptyMap)
    [] k \in InstallerKeys ->
         LET items == sData["Installers"].items
             i == CHOOSE j \in 1..Len(items) :
                    /\ Get(items[j], "Architecture") = sArch
                    /\ \A h \in 1..(j - 1) : Get(items[h], "Architecture") /= sArch
         IN  Get(items[i], k)
    [] k = "Architecture" -> sArch
    [] OTHER -> Get(sData, k)

\* C7: a written record holds no null-valued field; a field whose value is
\* null or missing is omitted and every other field is stored with its value.
C7_NoNullFieldWritten ==
  Written =>
    /\ \A k \in DOMAIN sRes.file.data : sRes.file.data[k] /= None_
    /\ \A k \in FieldNames :
         IF Available(k) = None_ THEN k \notin DOMAIN sRes.file.data
         ELSE k \in DOMAIN sRes.file.data /\ sRes.file.data[k] = Available(k)

C7_Witness ==
  /\ Written
  /\ "Scope" \in DOMAIN sData /\ sData["Scope"] = None_
  /\ "InstallerType" \notin DOMAIN sData
  /\ Get(sRes.file.data, "InstallerUrl") = None_
  /\ "PackageIdentifier" \in DOMAIN sRes.file.data

\* ------------------------------------------------------- SpecResolver
V201 == <<"2", ".", "0", ".", "1">>
N100 == <<"1", ".", "0", ".", "0">>
N200 == <<"2", ".", "0", ".", "0">>
N120 == <<"1", ".", "2", ".", "0">>
N1100 == <<"1", ".", "1", "0", ".", "0">>
N195 == <<"1", ".", "9", ".", "5">>

\* names a manifest directory holds: versions of three components, a version of
\* one component, and an entry that is no version folder
FolderNames == {N100, N200, V201, N120, N1100, N195, <<"2">>, <<".", "a">>}

\* the listings: distinct names in any order
Listings ==
  {l \in UNION {[1..k -> FolderNames] : k \in 0..MaxFolders} :
     \A i, j \in 1..Len(l) : i /= j => l[i] /= l[j]}

InitResolver ==
  /\ rFolders \in Listings
  /\ rSorted = <<>> /\ rTop = <<>> /\ rDates = <<>>
  /\ rCalls = 0 /\ rResult = NoFolder /\ rPc = "start"
  /\ SaveIdle /\ MainIdle

\* lines 172-174: no version folder, return None
ReturnNoVersionFolder ==
  /\ rPc = "start"
  /\ FilterVersionFolders(rFolders) = <<>>
  /\ rResult' = NoFolder
  /\ rPc' = "done"
  /\ UNCHANGED <<rFolders, rSorted, rTop, rDates, rCalls, saveVars, mainVars>>

\* lines 180-198: parse, sort by version, keep the top 3
\* (the except branch of lines 199-202 is not reachable: int() of a digit run
\* and the comparison of two lists of int do not raise)
RankFolders ==
  /\ rPc = "start"
  /\ FilterVersionFolders(rFolders) /= <<>>
  /\ rSorted' = SortByVersion(FilterVersionFolders(rFolders))
  /\ rTop' = Candidates(rFolders)
  /\ rPc' = "lookup"
  /\ UNCHANGED <<rFolders, rDates, rCalls, rResult, saveVars, mainVars>>

\* lines 205-220, one iteration: one get_github_api call for the next candidate;
\* date 0 is datetime.min (the call raised, or returned no commit)
LookupCommitDate ==
  /\ rPc = "lookup"
  /\ rCalls < Len(rTop)
  /\ \E date \in 0..MaxTime : rDates' = (rTop[rCalls + 1] :> date) @@ rDates
  /\ rCalls' = rCalls + 1
  /\ UNCHANGED <<rFolders, rSorted, rTop, rResult, rPc, saveVars, mainVars>>

\* lines 223-230: sort by commit date, return the first
ReturnLatest ==
  /\ rPc = "lookup"
  /\ rCalls = Len(rTop)
  /\ rResult' = LatestOf(rTop, rDates)
  /\ rPc' = "done"
  /\ UNCHANGED <<rFolders, rSorted, rTop, rDates, rCalls, saveVars, mainVars>>

NextResolver == ReturnNoVersionFolder \/ RankFolders \/ LookupCommitDate \/ ReturnLatest
SpecResolver == InitResolver /\ [][NextResolver]_vars

\* ---------------------------------------------------- claims on the resolver
NameSet(l) == {l[i] : i \in 1..Len(l)}
VersionFolderSet == {f \in NameSet(rFolders) : is_version_folder(f)}
Min(a, b) == IF a <= b THEN a ELSE b

\* the folders of the set vf with fewer than 3 folders ranked above them by
\* parsed version
CandidateSet(vf) ==
  LET parts == [f \in vf |-> version_parts(f)]
  IN  {f \in vf : Cardinality({g \in vf : ListLess(parts[f], parts[g])}) < TopN}

\* C3: None when no name begins with a digit; otherwise the result is one of
\* the at most 3 folders ranked highest by version and no candidate has a later
\* commit date (a failed lookup counting as the minimum); with 1.0.0, 2.0.0 and
\* 2.0.1 and 2.0.0 the most recently committed, the result is 2.0.0.
C3_LatestAmongTopThree ==
  rPc = "done" =>
    LET vf == VersionFolderSet
        candidates == CandidateSet(vf)
    IN  IF vf = {} THEN rResult = NoFolder
        ELSE /\ rResult \in candidates
             /\ Cardinality(candidates) <= TopN
             /\ \A c \in candidates : DateOf(rDates, c) <= DateOf(rDates, rResult)
             /\ (NameSet(rFolders) = {N100, N200, V201}
                   /\ DateOf(rDates, N200) > DateOf(rDates, V201)
                   /\ DateOf(rDates, N200) > DateOf(rDates, N100)) => rResult = N200

C3_Witness ==
  /\ rPc = "done"
  /\ rFolders = <<N100, N200, V201>>
  /\ DateOf(rDates, N200) = 2 /\ DateOf(rDates, V201) = 1 /\ DateOf(rDates, N100) = 0
  /\ rResult = N200

\* a is strictly greater than b at the first index where the sequences, padded
\* with zeros to their common length, differ
PaddedGreater(a, b) ==
  LET len == Max(Len(a), Len(b))
      pa == PadTo(a, len)
      pb == PadTo(b, len)
  IN  \E i \in 1..len : pa[i] > pb[i] /\ \A j \in 1..(i - 1) : pa[j] = pb[j]

\* C9: right after the ranking step, in the list sorted by version, a folder whose padded sequence is strictly
\* greater at the first differing component comes before the other; every
\* version folder of the listing is in the sorted list.
C9_RankedAsIntegers ==
  rPc = "lookup" /\ rCalls = 0 =>
    /\ NameSet(rSorted) = VersionFolderSet /\ Len(rSorted) = Cardinality(VersionFolderSet)
    /\ \A i, j \in 1..Len(rSorted) :
         PaddedGreater(version_parts(rSorted[i]), version_parts(rSorted[j])) => i < j

C9_Witness ==
  /\ rPc = "lookup"
  /\ rFolders = <<N120, N1100, N195, <<"2">>>>
  /\ rSorted = << <<"2">>, N1100, N195, N120>>

\* C10: one lookup per candidate, min(k, 3) in all for k digit-prefixed folders,
\* and never more than 3 at any point of the call.
C10_AtMostThreeLookups ==
  /\ rCalls <= TopN
  /\ rCalls = Cardinality(DOMAIN rDates)
  /\ rPc = "done" => rCalls = Min(Cardinality(VersionFolderSet), TopN)

C10_Witness ==
  /\ rPc = "done"
  /\ Cardinality(VersionFolderSet) = 4
  /\ rCalls = 3

\* ================================================================ main
\* supportedapps.json: two tracked apps and an entry without a name
supportedapps ==
  << [k \in {"id", "name"} |->
        IF k = "id" THEN Str(<<"F", "o", "o", ".", "B", "a", "r">>)
        ELSE Str(<<"F", "o", "o", " ", "B", "a", "r">>)],
     [k \in {"id"} |-> Str(<<"B", "a", "d">>)],
     [k \in {"id", "name"} |-> Str(<<"B", "a", "r">>)] >>

ArchTokens == {"x64", "x86"}
FilePaths ==
  {file_path(Get(supportedapps[i], "name").s, a) :
     i \in {j \in 1..Len(supportedapps) : Truthy(Get(supportedapps[j], "name"))},
     a \in ArchTokens}

\* ---- what the remote collaborators return for one app in one run
\* folders: get_app_manifests (<<>> also when the listing failed);
\* dates: the commit date each lookup gives; desc: get_installer_yaml for the
\* resolved folder, None_ when it gives None
Dict(d) == [t |-> "dict", d |-> d]
FullInstaller(arch) == InstallerEntry(arch, [f \in InstallerKeys |-> "value"])

\* a descriptor with every optional field, PackageVersion pv (Absent: no key)
\* and the installers `items` (listed: whether there is an Installers key)
DescOf(pv, items, listed) ==
  [k \in OptionalKeys \cup (IF pv = Absent THEN {} ELSE {"PackageVersion"})
         \cup (IF listed THEN {"Installers"} ELSE {}) |->
     CASE k = "PackageVersion" -> pv
       [] k = "Installers" -> [t |-> "list", items |-> items]
       [] OTHER -> FieldValue(k)]

InstallerLists ==
  { <<FullInstaller(X64)>>,
    <<FullInstaller(X64), FullInstaller(Val("x86"))>>,
    <<FullInstaller(X64), FullInstaller(Absent)>> }

PipelineVersions == {Absent, V100, V200, Num(1)}

Resolved(desc) ==
  [folders |-> <<N100, N200>>, dates |-> (N100 :> 1) @@ (N200 :> 2), desc |-> desc]
UpNoListing == [folders |-> <<>>, dates |-> <<>>, desc |-> None_]
UpNoVersionFolder == [folders |-> << <<".", "a">> >>, dates |-> <<>>, desc |-> None_]

\* every outcome, for the first tracked app
Upstreams ==
  {UpNoListing, UpNoVersionFolder, Resolved(None_), Resolved(Dict(DescOf(V100, <<>>, FALSE)))}
  \cup {Resolved(Dict(DescOf(pv, <<FullInstaller(X64)>>, TRUE))) : pv \in PipelineVersions}
  \cup {Resolved(Dict(DescOf(pv, <<FullInstaller(X64), FullInstaller(Absent)>>, TRUE))) :
          pv \in {V100, V200}}
  \cup {Resolved(Dict(DescOf(V100, <<FullInstaller(X64), FullInstaller(Val("x86"))>>, TRUE)))}

\* the outcomes for the apps after the first: a failed listing, one descriptor,
\* and one descriptor with an installer that has no Architecture
UpstreamsOf(i) ==
  IF i = 1 THEN Upstreams
  ELSE {UpNoListing,
        Resolved(Dict(DescOf(V100, <<FullInstaller(X64)>>, TRUE))),
        Resolved(Dict(DescOf(V100, <<FullInstaller(X64), FullInstaller(Absent)>>, TRUE)))}

\* `not installer_data`: None or an empty dict
NotDescriptor(desc) == desc.t = "none" \/ DOMAIN desc.d = {}

ArchsOf(up) == IF NotDescriptor(up.desc) THEN {} ELSE Architectures(up.desc.d)
IterationOrders(S) ==
  {s \in [1..Cardinality(S) -> S] : \A x \in S : \E i \in 1..Cardinality(S) : s[i] = x}

\* lines 413-415: save_app_info for each architecture in the order the set
\* yields them; an exception ends the loop and leaves process_app
RECURSIVE SaveEach(_, _, _, _, _, _)
SaveEach(st, app_name, installer_data, order, wr, acc) ==
  IF order = <<>>
  THEN [store |-> st, raised |-> FALSE, ret |-> acc.updated, opened |-> acc.opened]
  ELSE LET arch == Head(order)
           known == arch.t = "val"
           path == IF known THEN file_path(app_name, arch.v) ELSE <<>>
           r == save_app_info(IF known THEN st[path] ELSE NoFile, installer_data,
                              arch, wr[arch])
           st2 == IF known THEN [st EXCEPT ![path] = r.file] ELSE st
       IN  IF r.raised
           THEN [store |-> st2, raised |-> TRUE, ret |-> FALSE, opened |-> acc.opened]
           ELSE SaveEach(st2, app_name, installer_data, Tail(order), wr,
                         [updated |-> acc.updated \/ r.ret,
                          opened |-> acc.opened \cup (IF r.opened THEN {path} ELSE {})])

\* process_app(app) on the record files `st` when the collaborators return `up`
Returned(st) == [store |-> st, raised |-> FALSE, ret |-> FALSE, opened |-> {}]
process_app(app, up, order, wr, st) ==
  IF ~Truthy(Get(app, "id")) \/ ~Truthy(Get(app, "name")) THEN Returned(st)
  ELSE IF up.folders = <<>> THEN Returned(st)
  ELSE IF get_latest_version_folder(up.folders, up.dates) = NoFolder THEN Returned(st)
  ELSE IF NotDescriptor(up.desc) THEN Returned(st)
  ELSE SaveEach(st, Get(app, "name").s, up.desc.d, order, wr,
                [updated |-> FALSE, opened |-> {}])

Init ==
  /\ pc = "load" /\ idx = 0 /\ mode = "fresh" /\ opened = {}
  /\ store = [f \in FilePaths |-> NoFile]
  /\ last = [i \in 1..Len(supportedapps) |-> UpNoListing]
  /\ SaveIdle /\ ResolverIdle

\* load_supported_apps succeeds
LoadApps ==
  /\ pc = "load"
  /\ pc' = "loop" /\ idx' = 1
  /\ UNCHANGED <<store, last, mode, opened, saveVars, resolverVars>>

\* load_supported_apps fails: sys.exit(1)
LoadFails ==
  /\ pc = "load"
  /\ pc' = "exit"
  /\ UNCHANGED <<idx, store, last, mode, opened, saveVars, resolverVars>>

ValidApp(app) == Truthy(Get(app, "id")) /\ Truthy(Get(app, "name"))

\* one iteration of main's loop: process_app(apps[idx]) from its first line
\* to its return or to the exception that leaves main
ProcessApp ==
  /\ pc = "loop" /\ idx <= Len(supportedapps)
  /\ \E up \in (IF mode = "repeat" \/ ~ValidApp(supportedapps[idx])
                THEN {last[idx]} ELSE UpstreamsOf(idx)) :
       \E order \in IterationOrders(ArchsOf(up)), wr \in [ArchsOf(up) -> WriteOutcomes] :
         LET r == process_app(supportedapps[idx], up, order, wr, store)
         IN  /\ store' = r.store
             /\ opened' = r.opened
             /\ last' = [last EXCEPT ![idx] = up]
             /\ pc' = IF r.raised THEN "crashed" ELSE "loop"
             /\ idx' = IF r.raised THEN idx ELSE idx + 1
  /\ UNCHANGED <<mode, saveVars, resolverVars>>

\* the loop is over: main prints the summary and returns
FinishRun ==
  /\ pc = "loop" /\ idx > Len(supportedapps)
  /\ pc' = "done"
  /\ UNCHANGED <<idx, store, last, mode, opened, saveVars, resolverVars>>

\* the next scheduled run of the script, upstream free to have changed
StartRun ==
  /\ pc \in {"done", "crashed", "exit"}
  /\ pc' = "load" /\ idx' = 0 /\ mode' = "fresh" /\ opened' = {}
  /\ UNCHANGED <<store, last, saveVars, resolverVars>>

\* the next run right after a completed one, upstream unchanged
RepeatRun ==
  /\ pc = "done"
  /\ pc' = "load" /\ idx' = 0 /\ mode' = "repeat" /\ opened' = {}
  /\ UNCHANGED <<store, last, saveVars, resolverVars>>

Next == LoadApps \/ LoadFails \/ ProcessApp \/ FinishRun \/ StartRun \/ RepeatRun
Spec == Init /\ [][Next]_vars

\* ----------------------------------------------------------- claims on main
VersionOf(file) == IF file.k = "rec" THEN Get(file.data, "PackageVersion") ELSE None_
ProcessAppStep == pc = "loop" /\ idx <= Len(supportedapps)

\* new is newer than old under the gate's comparison policy
NewerVersion(old, new) ==
  \/ old.t = "str" /\ new.t = "str" /\ PaddedNewer(DigitRuns(old.s), DigitRuns(new.s))
  \/ old.t = "num" /\ new.t = "num" /\ new.n > old.n

\* C1: a record file that holds a version, and is a readable record after the
\* step, holds the same or a newer version after it.
C1_VersionNeverDecreases ==
  [][\A f \in FilePaths :
       (Truthy(VersionOf(store[f])) /\ store'[f].k = "rec")
       => \/ VersionOf(store'[f]) = VersionOf(store[f])
          \/ NewerVersion(VersionOf(store[f]), VersionOf(store'[f]))]_vars

\* the record save_app_info builds from descriptor d for the file f
RecordFor(d, f) ==
  Rec(RemoveNone(RawJsonData(d, FindInstaller(GetDefault(d, "Installers", EmptyList).items,
                                              Val(f[2])), Val(f[2]))))

\* C5: in a run that sees the same upstream as the completed run before it,
\* save_app_info does not open a record file that already holds the record of
\* the descriptor it is given.
C5_SecondRunWritesNothing ==
  [][(mode = "repeat" /\ ProcessAppStep /\ ~NotDescriptor(last[idx].desc))
     => \A f \in opened' : store[f] /= RecordFor(last[idx].desc.d, f)]_vars

\* C6: a run that loaded the tracked-app list ends only after the loop has
\* gone through every app of the list.
C6_EveryAppProcessed ==
  pc \in {"done", "crashed"} => idx > Len(supportedapps)

\* C8: a record file that holds a readable record is opened for writing, or
\* changed, only when the gate accepted: the stored record holds no version, or
\* the comparison of the stored and the new version decided for the new one.
GateAccepted(file, new_version) ==
  /\ file.k = "rec"
  /\ \/ ~Truthy(VersionOf(file))
     \/ GateDecision(VersionOf(file), new_version) = "accept"
C8_WriteOnlyAfterAccept ==
  [][ProcessAppStep
     => \A f \in FilePaths :
          (store[f].k = "rec" /\ (f \in opened' \/ store'[f] /= store[f]))
          => /\ ~NotDescriptor(last'[idx].desc)
             /\ GateAccepted(store[f], Get(last'[idx].desc.d, "PackageVersion"))]_vars

====
